---- MODULE Spec2Model ----
(***************************************************************************)
(* The registration server's request handlers (src/routes.rs) as a state   *)
(* machine.  The state is the store behind config.db (the domain records   *)
(* and the discovery mappings) and, for every request being handled, the   *)
(* position of its handler between two store calls.  One store call is one *)
(* step: handlers of different requests interleave between their calls.    *)
(* Strings the handlers compute on (names, descriptions, hrefs) are        *)
(* sequences of one-character strings; tokens are the numbers of the uuids *)
(* in the order they were minted.                                          *)
(***************************************************************************)
EXTENDS Naturals, Sequences, FiniteSets

VARIABLES records, discos, minted, pc, req, loc, resp, pred

vars == <<records, discos, minted, pc, req, loc, resp, pred>>

(* ------------------------------ bounds -------------------------------- *)

\* Requests handled in one behaviour (each by a handler of its own).
MaxRequests == 2

\* Tokens: the uuids that subscribe may mint.
MaxTokens == 2

Handlers == 1..MaxRequests

\* The tokens a request may carry: those that subscribe has answered so far
\* (a uuid is known to no client before), and one that is never minted.
Tokens == (1..minted) \cup {MaxTokens + 1}

(* --------------------------- input domains ---------------------------- *)

NONE == "None"

Names == {<<"a">>, <<"A">>, <<"b">>}

Descs == {<<"x">>}

LocalIps == {"10.0.0.2"}

PublicIps == {"203.0.113.5", "203.0.113.6"}

Challenges == {"c1"}

\* Seconds since the epoch that SystemTime::now() may answer.
Clock == {2, 3}

\* What an earlier run of the server stored: a challenge, a local address
\* and a time that no request of this run carries.
OldChallenge == "c0"

OldLocalIp == "10.0.0.1"

OldTime == 1

DiscoIds == {"d1", "d2"}

\* config.domain
Domain == <<"E", "x">>

(* ------------------------------ strings ------------------------------- *)

Lower(c) ==
    CASE c = "A" -> "a"
      [] c = "B" -> "b"
      [] c = "E" -> "e"
      [] c = "X" -> "x"
      [] OTHER -> c

to_lowercase(s) == [i \in 1..Len(s) |-> Lower(s[i])]

\* A domain_for_name that keeps the case of the name.
domain_for_name_keeps_case(name) ==
    name \o <<".", "b", "o", "x", ".">> \o Domain \o <<".">>

domain_for_name(name) ==
    to_lowercase(name \o <<".", "b", "o", "x", ".">> \o Domain \o <<".">>)

local_name_for(full_name) == <<"l", "o", "c", "a", "l", ".">> \o full_name

default_description(name) ==
    name \o <<"'", "s", " ", "s", "e", "r", "v", "e", "r">>

Https == <<"h", "t", "t", "p", "s", ":", "/", "/">>

\* s[..s.len() - 1]
strip_last(s) == SubSeq(s, 1, Len(s) - 1)

(* ------------------------------ records ------------------------------- *)

\* DomainRecord::new(token, local_name, remote_name, dns_challenge, local_ip,
\*                   public_ip, description, email, timestamp)
DomainRecord(tok, lname, rname, chal, lip, pip, desc, email, ts) ==
    [token |-> tok, local_name |-> lname, remote_name |-> rname,
     dns_challenge |-> chal, local_ip |-> lip, public_ip |-> pip,
     description |-> desc, email |-> email, timestamp |-> ts]

\* The handler holds no record.
NoRecord == DomainRecord(0, <<>>, <<>>, NONE, NONE, NONE, <<>>, NONE, 0)

Discovered(href, desc) == [href |-> href, desc |-> desc]

(* ------------------------------- store -------------------------------- *)
(* database.rs is not among the sources: the store is modelled from the    *)
(* StoreInterface contract of the specification.  A call answers           *)
(* [ok |-> TRUE, val |-> ...] or [ok |-> FALSE] for DatabaseError::NoRecord.*)
(* Where the contract does not say what a call does, the call is the set   *)
(* of the outcomes a store may give, and the handler's step takes any of   *)
(* them.                                                                   *)

get_record_by_token(recs, token) ==
    IF \E r \in recs : r.token = token
    THEN [ok |-> TRUE, val |-> CHOOSE r \in recs : r.token = token]
    ELSE [ok |-> FALSE, val |-> NoRecord]

get_record_by_name(recs, name) ==
    IF \E r \in recs : r.remote_name = name
    THEN [ok |-> TRUE, val |-> CHOOSE r \in recs : r.remote_name = name]
    ELSE [ok |-> FALSE, val |-> NoRecord]

\* The rows of a set of records, in the order of their tokens.
RECURSIVE rows(_)
rows(recs) ==
    IF recs = {} THEN <<>>
    ELSE LET first == CHOOSE r \in recs : \A q \in recs : r.token <= q.token
         IN  <<first>> \o rows(recs \ {first})

\* A Vec of records, empty when no record has the address.
get_records_by_public_ip(recs, ip) == rows({r \in recs : r.public_ip = ip})

add_record(recs, record) == recs \cup {record}

\* updateRecord (full replace): the record that has the token is replaced.
\* The contract is silent on a record whose token is not stored: the rows
\* are left as they are, or the record is stored.
update_record(recs, record) ==
    IF \E r \in recs : r.token = record.token
    THEN {{IF r.token = record.token THEN record ELSE r : r \in recs}}
    ELSE {recs, recs \cup {record}}

delete_record_by_token(recs, token) ==
    [count |-> Cardinality({r \in recs : r.token = token}),
     recs |-> {r \in recs : r.token # token}]

\* addDiscovery(token, id): the mapping is created.  The contract is silent
\* on an id that is mapped already: the call is refused, or the mapping of
\* the id is replaced, or the new mapping is stored next to the old one.
add_discovery(ds, token, disco) ==
    LET row == [disco |-> disco, token |-> token]
    IN  IF \E d \in ds : d.disco = disco
        THEN {[ok |-> FALSE, ds |-> ds],
              [ok |-> TRUE, ds |-> {d \in ds : d.disco # disco} \cup {row}],
              [ok |-> TRUE, ds |-> ds \cup {row}]}
        ELSE {[ok |-> TRUE, ds |-> ds \cup {row}]}

delete_discovery(ds, disco) == {d \in ds : d.disco # disco}

\* getTokenForDiscovery(id): a token the id is mapped to.
get_token_for_discovery(ds, disco) ==
    IF \E d \in ds : d.disco = disco
    THEN {[ok |-> TRUE, val |-> d.token] : d \in {m \in ds : m.disco = disco}}
    ELSE {[ok |-> FALSE, val |-> 0]}

\* The DNS bridge's challenge lookup (pdns is not among the sources): the
\* challenge of the record that has the remote name, or none.
lookupChallenge(recs, name) ==
    LET got == get_record_by_name(recs, name)
    IN  IF got.ok THEN got.val.dns_challenge ELSE NONE

(* ------------------------------ requests ------------------------------ *)
(* A request: the operation, the query parameters (params::Value) and the  *)
(* peer address of the socket.  absent holds the names of the parameters   *)
(* the query lacks, scalar those whose value is a number or a boolean,     *)
(* nonstring those whose value is an array, a map, a file or null;         *)
(* unparsable says that req.get_ref::<Params>() answers Err.               *)

Request(op, token, local_ip, challenge, name, desc, disco, remote_addr) ==
    [op |-> op, token |-> token, local_ip |-> local_ip,
     challenge |-> challenge, name |-> name, desc |-> desc, disco |-> disco,
     remote_addr |-> remote_addr, absent |-> {}, scalar |-> {},
     nonstring |-> {}, unparsable |-> FALSE]

NoRequest == Request("none", 0, NONE, NONE, <<>>, <<>>, NONE, NONE)

(* ------------------------------ responses ----------------------------- *)

\* EndpointError::with(status, errno)
EndpointError(status, errno) ==
    [status |-> status, errno |-> errno, kind |-> "error", body |-> <<>>]

\* Response::new() with status = Some(Status::Ok)
OkEmpty == [status |-> "Ok", errno |-> 0, kind |-> "empty", body |-> <<>>]

\* Response::with(json): the handlers of info, ping and discovery set no status.
Json(status, kind, body) ==
    [status |-> status, errno |-> 0, kind |-> kind, body |-> body]

NoResponse == [status |-> NONE, errno |-> 0, kind |-> "none", body |-> <<>>]

BadRequest == EndpointError("BadRequest", 400)

InternalServerError == EndpointError("InternalServerError", 501)

(* ------------------------------ handlers ------------------------------ *)

Finished == {"done", "aborted"}

\* The parameters a handler requires (map.find(..).is_none() answers 400).
Required(op) ==
    CASE op = "register" -> {"token", "local_ip"}
      [] op = "info" -> {"token"}
      [] op = "unsubscribe" -> {"token"}
      [] op = "subscribe" -> {"name"}
      [] op = "dnsconfig" -> {"challenge", "token"}
      [] op = "adddiscovery" -> {"token", "disco"}
      [] op = "revokediscovery" -> {"token", "disco"}
      [] op = "discovery" -> {"disco"}
      [] OTHER -> {}

\* The first store call of a handler.
FirstCall(op) ==
    CASE op \in {"register", "info", "dnsconfig", "adddiscovery",
                 "revokediscovery"} -> "get_record_by_token"
      [] op = "ping" -> "get_records_by_public_ip"
      [] op = "unsubscribe" -> "delete_record_by_token"
      [] op = "subscribe" -> "get_record_by_name"
      [] OTHER -> "get_token_for_discovery"

\* The handler up to its first store call.  Every handler but ping starts
\* with req.get_ref::<Params>().unwrap(), which panics on a query that
\* cannot be parsed.  subscribe matches its name on Value::String and answers
\* 400 for anything else.  The other handlers answer 400 for a required
\* parameter that is absent; String::from_value(..).unwrap() turns a number
\* or a boolean into a string and panics on any other value.
Entry(r) ==
    IF r.op # "ping" /\ r.unparsable THEN "panic"
    ELSE IF r.op = "subscribe"
         THEN IF "name" \in r.absent \cup r.scalar \cup r.nonstring
              THEN "bad_request"
              ELSE "call"
    ELSE IF Required(r.op) \cap r.absent # {} THEN "bad_request"
    ELSE IF Required(r.op) \cap r.nonstring # {} THEN "panic"
    ELSE "call"

\* Subscribes that may still mint a token.
Minting == {h \in Handlers : req[h].op = "subscribe" /\ pc[h] \notin Finished}

\* A request arrives and its handler runs up to its first store call.
\* Handlers are taken in the order of their numbers.
Arrive(w, r) ==
    /\ pc[w] = "idle"
    /\ \A h \in Handlers : h < w => pc[h] # "idle"
    /\ r.op = "subscribe" => minted + Cardinality(Minting) < MaxTokens
    /\ req' = [req EXCEPT ![w] = r]
    /\ pred' = [pred EXCEPT ![w] = {h \in Handlers : pc[h] \in Finished}]
    /\ pc' = [pc EXCEPT ![w] =
                 CASE Entry(r) = "call" -> FirstCall(r.op)
                   [] Entry(r) = "panic" -> "aborted"
                   [] OTHER -> "done"]
    /\ resp' = [resp EXCEPT ![w] =
                   IF Entry(r) = "bad_request" THEN BadRequest ELSE NoResponse]
    /\ UNCHANGED <<records, discos, minted, loc>>

At(w, op, call) == pc[w] = call /\ req[w].op = op

Return(w, response) ==
    /\ pc' = [pc EXCEPT ![w] = "done"]
    /\ resp' = [resp EXCEPT ![w] = response]

Continue(w, call, record) ==
    /\ pc' = [pc EXCEPT ![w] = call]
    /\ loc' = [loc EXCEPT ![w] = record]
    /\ UNCHANGED resp

\* A register that writes the timestamp of the record back.
register_keeps_timestamp(record, local_ip, public_ip, timestamp) ==
    DomainRecord(record.token, record.local_name, record.remote_name,
                 record.dns_challenge, local_ip, public_ip,
                 record.description, record.email, record.timestamp)

\* A register that writes no challenge back.
register_forgets_challenge(record, local_ip, public_ip, timestamp) ==
    DomainRecord(record.token, record.local_name, record.remote_name,
                 NONE, local_ip, public_ip,
                 record.description, record.email, timestamp)

\* register: the record written back.
register_new_record(record, local_ip, public_ip, timestamp) ==
    DomainRecord(record.token, record.local_name, record.remote_name,
                 record.dns_challenge, local_ip, public_ip,
                 record.description, record.email, timestamp)

\* A register that answers 200 for a token it does not find.
register_get_accepts(w) ==
    /\ At(w, "register", "get_record_by_token")
    /\ LET got == get_record_by_token(records, req[w].token)
       IN  IF got.ok
           THEN Continue(w, "update_record", got.val)
           ELSE Return(w, OkEmpty) /\ UNCHANGED loc
    /\ UNCHANGED <<records, discos, minted, req, pred>>

register_get(w) ==
    /\ At(w, "register", "get_record_by_token")
    /\ LET got == get_record_by_token(records, req[w].token)
       IN  IF got.ok
           THEN Continue(w, "update_record", got.val)
           ELSE Return(w, BadRequest) /\ UNCHANGED loc
    /\ UNCHANGED <<records, discos, minted, req, pred>>

register_update(w) ==
    /\ At(w, "register", "update_record")
    /\ \E now \in Clock :
          records' \in update_record(records,
              register_new_record(loc[w], req[w].local_ip,
                                  req[w].remote_addr, now))
    /\ Return(w, OkEmpty)
    /\ UNCHANGED <<discos, minted, req, loc, pred>>

\* A dnsconfig that writes no description back.
dnsconfig_forgets_description(record, challenge) ==
    DomainRecord(record.token, record.local_name, record.remote_name,
                 challenge, record.local_ip, record.public_ip,
                 <<>>, record.email, record.timestamp)

\* dnsconfig: the record written back.
dnsconfig_new_record(record, challenge) ==
    DomainRecord(record.token, record.local_name, record.remote_name,
                 challenge, record.local_ip, record.public_ip,
                 record.description, record.email, record.timestamp)

dnsconfig_get(w) ==
    /\ At(w, "dnsconfig", "get_record_by_token")
    /\ LET got == get_record_by_token(records, req[w].token)
       IN  IF got.ok
           THEN Continue(w, "update_record", got.val)
           ELSE Return(w, BadRequest) /\ UNCHANGED loc
    /\ UNCHANGED <<records, discos, minted, req, pred>>

dnsconfig_update(w) ==
    /\ At(w, "dnsconfig", "update_record")
    /\ records' \in update_record(records,
                       dnsconfig_new_record(loc[w], req[w].challenge))
    /\ Return(w, OkEmpty)
    /\ UNCHANGED <<discos, minted, req, loc, pred>>

info_get(w) ==
    /\ At(w, "info", "get_record_by_token")
    /\ LET got == get_record_by_token(records, req[w].token)
       IN  IF got.ok
           THEN Return(w, Json(NONE, "record", <<got.val>>))
           ELSE Return(w, BadRequest)
    /\ UNCHANGED <<records, discos, minted, req, loc, pred>>

\* An entry that keeps the trailing dot of the name.
local_entry_keeps_dot(item) ==
    Discovered(Https \o item.local_name, item.description)

\* ping and discovery: the entry of a record on the caller's network.
local_entry(item) ==
    Discovered(Https \o strip_last(item.local_name), item.description)

\* discovery: the entry of the owner when it is on another network.
remote_entry(record) ==
    Discovered(Https \o strip_last(record.remote_name), record.description)

\* into_iter().map(..).collect()
local_entries(found) == [i \in 1..Len(found) |-> local_entry(found[i])]

ping_results(found) == local_entries(found)

ping_get(w) ==
    /\ At(w, "ping", "get_records_by_public_ip")
    /\ Return(w, Json(NONE, "discovered",
              ping_results(get_records_by_public_ip(records,
                                                    req[w].remote_addr))))
    /\ UNCHANGED <<records, discos, minted, req, loc, pred>>

\* ping: the Err(DatabaseError::NoRecord) arm.  The store of the
\* specification answers a set of records, empty when no record has the
\* address; a store that answers NoRecord instead makes ping answer 400.
ping_no_record(w) ==
    /\ At(w, "ping", "get_records_by_public_ip")
    /\ get_records_by_public_ip(records, req[w].remote_addr) = <<>>
    /\ Return(w, BadRequest)
    /\ UNCHANGED <<records, discos, minted, req, loc, pred>>

\* An unsubscribe that answers 200 whatever the count.
unsubscribe_always_ok(w) ==
    /\ At(w, "unsubscribe", "delete_record_by_token")
    /\ records' = delete_record_by_token(records, req[w].token).recs
    /\ Return(w, OkEmpty)
    /\ UNCHANGED <<discos, minted, req, loc, pred>>

unsubscribe_delete(w) ==
    /\ At(w, "unsubscribe", "delete_record_by_token")
    /\ LET deleted == delete_record_by_token(records, req[w].token)
       IN  /\ records' = deleted.recs
           /\ IF deleted.count = 0
              THEN Return(w, BadRequest)
              ELSE Return(w, OkEmpty)
    /\ UNCHANGED <<discos, minted, req, loc, pred>>

\* subscribe: the description of the new record.
subscribe_description(r) ==
    IF "desc" \in r.absent \cup r.scalar \cup r.nonstring
    THEN default_description(r.name)
    ELSE r.desc

\* subscribe: the record added for a name that is free.
subscribe_new_record(token, r) ==
    DomainRecord(token, local_name_for(domain_for_name(r.name)),
                 domain_for_name(r.name), NONE, NONE, NONE,
                 subscribe_description(r), NONE, 0)

UnavailableName == Json("BadRequest", "UnavailableName", <<>>)

NameAndToken(name, token) ==
    Json("Ok", "name_and_token", <<[name |-> name, token |-> token]>>)

subscribe_get(w) ==
    /\ At(w, "subscribe", "get_record_by_name")
    /\ IF get_record_by_name(records, domain_for_name(req[w].name)).ok
       THEN Return(w, UnavailableName)
       ELSE pc' = [pc EXCEPT ![w] = "add_record"] /\ UNCHANGED resp
    /\ UNCHANGED <<records, discos, minted, req, loc, pred>>

\* A subscribe whose record takes the place of the stored ones.
subscribe_add_replaces(w) ==
    /\ At(w, "subscribe", "add_record")
    /\ minted' = minted + 1
    /\ records' = {subscribe_new_record(minted + 1, req[w])}
    /\ Return(w, NameAndToken(req[w].name, minted + 1))
    /\ UNCHANGED <<discos, req, loc, pred>>

\* Uuid::new_v4() is the next token: one no record or request has held.
subscribe_add(w) ==
    /\ At(w, "subscribe", "add_record")
    /\ minted' = minted + 1
    /\ records' = add_record(records, subscribe_new_record(minted + 1, req[w]))
    /\ Return(w, NameAndToken(req[w].name, minted + 1))
    /\ UNCHANGED <<discos, req, loc, pred>>

adddiscovery_get(w) ==
    /\ At(w, "adddiscovery", "get_record_by_token")
    /\ IF get_record_by_token(records, req[w].token).ok
       THEN pc' = [pc EXCEPT ![w] = "add_discovery"] /\ UNCHANGED resp
       ELSE Return(w, BadRequest)
    /\ UNCHANGED <<records, discos, minted, req, loc, pred>>

adddiscovery_add(w) ==
    /\ At(w, "adddiscovery", "add_discovery")
    /\ \E added \in add_discovery(discos, req[w].token, req[w].disco) :
          /\ discos' = added.ds
          /\ IF added.ok THEN Return(w, OkEmpty) ELSE Return(w, BadRequest)
    /\ UNCHANGED <<records, minted, req, loc, pred>>

\* A revokediscovery that does not look for the record of the token.
revokediscovery_get_accepts(w) ==
    /\ At(w, "revokediscovery", "get_record_by_token")
    /\ pc' = [pc EXCEPT ![w] = "delete_discovery"]
    /\ UNCHANGED <<records, discos, minted, req, loc, resp, pred>>

revokediscovery_get(w) ==
    /\ At(w, "revokediscovery", "get_record_by_token")
    /\ IF get_record_by_token(records, req[w].token).ok
       THEN pc' = [pc EXCEPT ![w] = "delete_discovery"] /\ UNCHANGED resp
       ELSE Return(w, BadRequest)
    /\ UNCHANGED <<records, discos, minted, req, loc, pred>>

\* A revokediscovery that refuses an id mapped to another token.
revokediscovery_delete_checks_owner(w) ==
    /\ At(w, "revokediscovery", "delete_discovery")
    /\ IF \E d \in discos : d.disco = req[w].disco /\ d.token # req[w].token
       THEN Return(w, BadRequest) /\ UNCHANGED discos
       ELSE Return(w, OkEmpty)
            /\ discos' = delete_discovery(discos, req[w].disco)
    /\ UNCHANGED <<records, minted, req, loc, pred>>

\* A revokediscovery that deletes only a mapping of its own token.
revokediscovery_delete_own(w) ==
    /\ At(w, "revokediscovery", "delete_discovery")
    /\ discos' = {d \in discos :
                    d.disco # req[w].disco \/ d.token # req[w].token}
    /\ Return(w, OkEmpty)
    /\ UNCHANGED <<records, minted, req, loc, pred>>

revokediscovery_delete(w) ==
    /\ At(w, "revokediscovery", "delete_discovery")
    /\ discos' = delete_discovery(discos, req[w].disco)
    /\ Return(w, OkEmpty)
    /\ UNCHANGED <<records, minted, req, loc, pred>>

\* A discovery that does not filter by the owner's token.
discovery_results_unfiltered(found, token) == local_entries(found)

\* discovery: the records of the caller's network that the owner holds.
discovery_results(found, token) ==
    local_entries(SelectSeq(found, LAMBDA item : item.token = token))

discovery_token(w) ==
    /\ At(w, "discovery", "get_token_for_discovery")
    /\ \E got \in get_token_for_discovery(discos, req[w].disco) :
          IF got.ok
          THEN Continue(w, "get_records_by_public_ip",
                        [NoRecord EXCEPT !.token = got.val])
          ELSE Return(w, BadRequest) /\ UNCHANGED loc
    /\ UNCHANGED <<records, discos, minted, req, pred>>

discovery_records(w) ==
    /\ At(w, "discovery", "get_records_by_public_ip")
    /\ LET results == discovery_results(
               get_records_by_public_ip(records, req[w].remote_addr),
               loc[w].token)
       IN  IF results = <<>>
           THEN pc' = [pc EXCEPT ![w] = "get_record_by_token"]
                /\ UNCHANGED resp
           ELSE Return(w, Json(NONE, "discovered", results))
    /\ UNCHANGED <<records, discos, minted, req, loc, pred>>

\* A discovery that answers an empty list when the owner has no record.
discovery_fallback_answers_empty(w) ==
    /\ At(w, "discovery", "get_record_by_token")
    /\ LET got == get_record_by_token(records, loc[w].token)
       IN  IF got.ok
           THEN Return(w, Json(NONE, "discovered", <<remote_entry(got.val)>>))
           ELSE Return(w, Json(NONE, "discovered", <<>>))
    /\ UNCHANGED <<records, discos, minted, req, loc, pred>>

discovery_fallback(w) ==
    /\ At(w, "discovery", "get_record_by_token")
    /\ LET got == get_record_by_token(records, loc[w].token)
       IN  IF got.ok
           THEN Return(w, Json(NONE, "discovered", <<remote_entry(got.val)>>))
           ELSE Return(w, BadRequest)
    /\ UNCHANGED <<records, discos, minted, req, loc, pred>>

\* The store calls: each is config.db.<call>(..).recv().unwrap().
StoreCalls ==
    {"get_record_by_token", "get_record_by_name", "get_records_by_public_ip",
     "add_record", "update_record", "delete_record_by_token",
     "add_discovery", "delete_discovery", "get_token_for_discovery"}

\* The store never answers a call: the handler stays in recv(), which has no
\* timeout, and the request gets no response.
store_never_completes(w) ==
    /\ pc[w] \in StoreCalls
    /\ pc' = [pc EXCEPT ![w] = "recv"]
    /\ UNCHANGED <<records, discos, minted, req, loc, resp, pred>>

\* The store drops its end of the reply channel without an answer: recv()
\* answers Err(RecvError) and unwrap() panics; the request gets no response.
reply_channel_closed(w) ==
    /\ pc[w] \in StoreCalls
    /\ pc' = [pc EXCEPT ![w] = "aborted"]
    /\ UNCHANGED <<records, discos, minted, req, loc, resp, pred>>

\* What a handler answers when its store call fails with an error that is
\* not DatabaseError::NoRecord (the Err(_) arm of the call's match).
failure_response(op, call) ==
    CASE op = "adddiscovery" /\ call = "add_discovery" -> BadRequest
      [] op = "revokediscovery" /\ call = "delete_discovery" -> BadRequest
      [] op = "discovery" /\ call = "get_records_by_public_ip" -> BadRequest
      [] op = "discovery" /\ call = "get_record_by_token" -> BadRequest
      [] OTHER -> InternalServerError

\* A store call fails: the handler returns at once, the store is unchanged.
store_fails(w) ==
    /\ pc[w] \in StoreCalls
    /\ Return(w, failure_response(req[w].op, pc[w]))
    /\ UNCHANGED <<records, discos, minted, req, loc, pred>>

(* ------------------------------ arrivals ------------------------------ *)
(* The requests clients send, with well-formed parameters.                 *)

register_request(w) ==
    /\ pc[w] = "idle"
    /\ \E t \in Tokens, l \in LocalIps, p \in PublicIps :
          Arrive(w, Request("register", t, l, NONE, <<>>, <<>>, NONE, p))

info_request(w) ==
    /\ pc[w] = "idle"
    /\ \E t \in Tokens :
          Arrive(w, Request("info", t, NONE, NONE, <<>>, <<>>, NONE, NONE))

ping_request(w) ==
    /\ pc[w] = "idle"
    /\ \E p \in PublicIps :
          Arrive(w, Request("ping", 0, NONE, NONE, <<>>, <<>>, NONE, p))

unsubscribe_request(w) ==
    /\ pc[w] = "idle"
    /\ \E t \in Tokens :
          Arrive(w, Request("unsubscribe", t, NONE, NONE, <<>>, <<>>, NONE,
                            NONE))

\* desc is optional.
subscribe_request(w) ==
    /\ pc[w] = "idle"
    /\ \E n \in Names, d \in Descs, missing \in {{}, {"desc"}} :
          Arrive(w, [Request("subscribe", 0, NONE, NONE, n,
                             IF missing = {} THEN d ELSE <<>>, NONE, NONE)
                       EXCEPT !.absent = missing])

dnsconfig_request(w) ==
    /\ pc[w] = "idle"
    /\ \E t \in Tokens, c \in Challenges :
          Arrive(w, Request("dnsconfig", t, NONE, c, <<>>, <<>>, NONE, NONE))

adddiscovery_request(w) ==
    /\ pc[w] = "idle"
    /\ \E t \in Tokens, d \in DiscoIds :
          Arrive(w, Request("adddiscovery", t, NONE, NONE, <<>>, <<>>, d,
                            NONE))

revokediscovery_request(w) ==
    /\ pc[w] = "idle"
    /\ \E t \in Tokens, d \in DiscoIds :
          Arrive(w, Request("revokediscovery", t, NONE, NONE, <<>>, <<>>, d,
                            NONE))

discovery_request(w) ==
    /\ pc[w] = "idle"
    /\ \E d \in DiscoIds, p \in PublicIps :
          Arrive(w, Request("discovery", 0, NONE, NONE, <<>>, <<>>, d, p))

\* The operations that take query parameters.
Ops ==
    {"register", "info", "unsubscribe", "subscribe", "dnsconfig",
     "adddiscovery", "revokediscovery", "discovery"}

\* A request whose query cannot be parsed (u), or that lacks required
\* parameters (a) or carries them with a number or a boolean (s) or with
\* another value that is no string, such as token[]=1 (n).  A number is no
\* uuid: a token that is one is the token of no record.
malformed_request(w) ==
    /\ pc[w] = "idle"
    /\ \E op \in Ops, u \in BOOLEAN :
       \E a \in SUBSET Required(op), s \in SUBSET Required(op),
          n \in SUBSET Required(op) :
          /\ a \cap s = {} /\ a \cap n = {} /\ s \cap n = {}
          /\ u <=> a \cup s \cup n = {}
          /\ Arrive(w, [Request(op,
                                IF "token" \in s THEN MaxTokens + 1 ELSE 1,
                                "10.0.0.2", "c1", <<"a">>, <<"x">>, "d1",
                                "203.0.113.5")
                          EXCEPT !.absent = a, !.scalar = s, !.nonstring = n,
                                 !.unparsable = u])

(* --------------------------- initial states --------------------------- *)
(* The server starts on the store an earlier run left: records that        *)
(* subscribe made and register and dnsconfig rewrote, mappings that        *)
(* adddiscovery made.                                                      *)

Unregistered == [local_ip |-> NONE, public_ip |-> NONE, timestamp |-> 0]

\* Registered in an earlier run from the public address p.
Registered(p) ==
    [local_ip |-> OldLocalIp, public_ip |-> p, timestamp |-> OldTime]

\* The record of token t: subscribed as name n with description d, last
\* challenge ch, last registration g.
Stored(t, n, d, ch, g) ==
    [subscribe_new_record(t, Request("subscribe", 0, NONE, NONE, n, d, NONE,
                                     NONE))
        EXCEPT !.dns_challenge = ch, !.local_ip = g.local_ip,
               !.public_ip = g.public_ip, !.timestamp = g.timestamp]

Mapping(d, t) == [disco |-> d, token |-> t]

InitWith(store, ds, m) ==
    /\ records = store
    /\ discos = ds
    /\ minted = m
    /\ pc = [h \in Handlers |-> "idle"]
    /\ req = [h \in Handlers |-> NoRequest]
    /\ loc = [h \in Handlers |-> NoRecord]
    /\ resp = [h \in Handlers |-> NoResponse]
    /\ pred = [h \in Handlers |-> {}]

(* ------------------- register and dnsconfig (SpecRW) ------------------ *)

\* Token 1 is subscribed as "a", or was and unsubscribed.
StoresRW ==
    {{}} \cup
    {{Stored(1, <<"a">>, default_description(<<"a">>), ch, g)} :
        ch \in {NONE, OldChallenge},
        g \in {Unregistered} \cup {Registered(p) : p \in PublicIps}}

InitRW == \E store \in StoresRW : InitWith(store, {Mapping("d1", 1)}, 1)

NextRW ==
    \E w \in Handlers :
        \/ register_request(w)
        \/ dnsconfig_request(w)
        \/ register_get(w)
        \/ register_update(w)
        \/ dnsconfig_get(w)
        \/ dnsconfig_update(w)

SpecRW == InitRW /\ [][NextRW]_vars

(* ------------- the life of a record (SpecLife, SpecSub) --------------- *)

\* Nothing is stored, or token 1 is subscribed as "a" or as "b".
StoresLife ==
    {{}} \cup
    {{Stored(1, n, default_description(n), NONE, g)} :
        n \in {<<"a">>, <<"b">>}, g \in {Unregistered, Registered("203.0.113.5")}}

\* The tokens minted are those of the records stored.
InitLife ==
    \E store \in StoresLife : InitWith(store, {}, Cardinality(store))

NextLife ==
    \E w \in Handlers :
        \/ subscribe_request(w)
        \/ register_request(w)
        \/ dnsconfig_request(w)
        \/ unsubscribe_request(w)
        \/ subscribe_get(w)
        \/ subscribe_add(w)
        \/ register_get(w)
        \/ register_update(w)
        \/ dnsconfig_get(w)
        \/ dnsconfig_update(w)
        \/ unsubscribe_delete(w)

SpecLife == InitLife /\ [][NextLife]_vars

InitSub == InitLife

NextSub ==
    \E w \in Handlers :
        \/ subscribe_request(w)
        \/ unsubscribe_request(w)
        \/ subscribe_get(w)
        \/ subscribe_add(w)
        \/ unsubscribe_delete(w)

SpecSub == InitSub /\ [][NextSub]_vars

(* ------------------ unsubscribe and info (SpecUnsub) ------------------ *)

InitUnsub == InitRW

\* The requests that read or delete a record and never write one.
NextUnsub ==
    \E w \in Handlers :
        \/ unsubscribe_request(w)
        \/ info_request(w)
        \/ unsubscribe_delete(w)
        \/ info_get(w)

SpecUnsub == InitUnsub /\ [][NextUnsub]_vars

(* ---------------- ping and discovery (SpecPing, SpecDiscovery) -------- *)

Networks == {Unregistered} \cup {Registered(p) : p \in PublicIps}

\* Token 1 is subscribed as "a"; token 2 as "b", or as "A" in a race with
\* token 1 (both with the description "x"); either may be unsubscribed.
Record1(g) == Stored(1, <<"a">>, <<"x">>, NONE, g)

Record2(n, g) ==
    Stored(2, n, IF n = <<"b">> THEN default_description(n) ELSE <<"x">>,
           NONE, g)

StoresTwo ==
    {{}} \cup {{Record1(g)} : g \in Networks}
         \cup {{Record2(n, g)} : n \in {<<"b">>, <<"A">>}, g \in Networks}
         \cup {{Record1(g1), Record2(n, g2)} :
                  n \in {<<"b">>, <<"A">>}, g1 \in Networks, g2 \in Networks}

InitPing == \E store \in StoresTwo : InitWith(store, {}, 2)

NextPing ==
    \E w \in Handlers :
        \/ ping_request(w)
        \/ register_request(w)
        \/ ping_get(w)
        \/ register_get(w)
        \/ register_update(w)

SpecPing == InitPing /\ [][NextPing]_vars

\* Token 2, when stored, is subscribed as "b".  "d1" is mapped to token 1,
\* whose record is stored or not; "d2" is not mapped.
StoresDiscovery ==
    {store \in StoresTwo :
        \A r \in store : r.token = 2 => r.remote_name = domain_for_name(<<"b">>)}

InitDiscovery ==
    \E store \in StoresDiscovery : InitWith(store, {Mapping("d1", 1)}, 2)

NextDiscovery ==
    \E w \in Handlers :
        \/ discovery_request(w)
        \/ register_request(w)
        \/ discovery_token(w)
        \/ discovery_records(w)
        \/ discovery_fallback(w)
        \/ register_get(w)
        \/ register_update(w)

SpecDiscovery == InitDiscovery /\ [][NextDiscovery]_vars

(* --------------------- discovery mappings (SpecDisco) ----------------- *)

StoresDisco ==
    {{Record1(Registered("203.0.113.5"))},
     {Record1(Registered("203.0.113.5")), Record2(<<"b">>, Unregistered)}}

InitDisco ==
    \E store \in StoresDisco,
       ds \in {{}, {Mapping("d1", 1)}, {Mapping("d1", 2)}} :
        InitWith(store, ds, 2)

NextDisco ==
    \E w \in Handlers :
        \/ adddiscovery_request(w)
        \/ revokediscovery_request(w)
        \/ discovery_request(w)
        \/ adddiscovery_get(w)
        \/ adddiscovery_add(w)
        \/ revokediscovery_get(w)
        \/ revokediscovery_delete(w)
        \/ discovery_token(w)
        \/ discovery_records(w)
        \/ discovery_fallback(w)

SpecDisco == InitDisco /\ [][NextDisco]_vars

(* ------------------------- reading the state -------------------------- *)

Done(w, op) == pc[w] = "done" /\ req[w].op = op

\* p had returned when q arrived.
Before(p, q) == p \in pred[q]

\* No request but those of S has arrived.
Alone(S) == \A h \in Handlers \ S : pc[h] = "idle"

\* The handler takes the step of its store call.
Calls(w, op, call) == At(w, op, call) /\ pc'[w] # call

Has(recs, token) == \E r \in recs : r.token = token

(* --------------- a store that may not answer (SpecHang) --------------- *)

NextHang ==
    \E w \in Handlers :
        \/ register_request(w)
        \/ discovery_request(w)
        \/ register_get(w)
        \/ register_update(w)
        \/ discovery_token(w)
        \/ discovery_records(w)
        \/ discovery_fallback(w)
        \/ store_never_completes(w)
        \/ reply_channel_closed(w)

\* Iron runs every handler on a thread of its pool: a handler that can take
\* a step takes it.
SpecHang == InitRW /\ [][NextHang]_vars /\ WF_vars(NextHang)

(* ------------------ malformed requests (SpecParams) ------------------- *)

NextParams ==
    \E w \in Handlers :
        \/ malformed_request(w)
        \/ info_request(w)
        \/ register_get(w)
        \/ register_update(w)
        \/ info_get(w)
        \/ unsubscribe_delete(w)
        \/ dnsconfig_get(w)
        \/ dnsconfig_update(w)
        \/ adddiscovery_get(w)
        \/ adddiscovery_add(w)
        \/ revokediscovery_get(w)
        \/ revokediscovery_delete(w)
        \/ discovery_token(w)
        \/ discovery_records(w)
        \/ discovery_fallback(w)

SpecParams == InitRW /\ [][NextParams]_vars

(* ------------------ a store that may fail (SpecFail) ------------------ *)

NextFail ==
    \E w \in Handlers :
        \/ register_request(w)
        \/ adddiscovery_request(w)
        \/ revokediscovery_request(w)
        \/ discovery_request(w)
        \/ register_get(w)
        \/ register_update(w)
        \/ adddiscovery_get(w)
        \/ adddiscovery_add(w)
        \/ revokediscovery_get(w)
        \/ revokediscovery_delete(w)
        \/ discovery_token(w)
        \/ discovery_records(w)
        \/ discovery_fallback(w)
        \/ ping_request(w)
        \/ ping_get(w)
        \/ ping_no_record(w)
        \/ store_fails(w)

SpecFail == InitDisco /\ [][NextFail]_vars

(* ------------- mappings left behind (SpecDangling) -------------------- *)

NextDangling ==
    \E w \in Handlers :
        \/ unsubscribe_request(w)
        \/ discovery_request(w)
        \/ unsubscribe_delete(w)
        \/ discovery_token(w)
        \/ discovery_records(w)
        \/ discovery_fallback(w)

SpecDangling == InitDiscovery /\ [][NextDangling]_vars

(* C1: a register(t, l, p) and a dnsconfig(t, c) that overlap on an        *)
(* existing token t and both return Ok leave the record of t with          *)
(* localIp = l, publicIp = p and dnsChallenge = c.                         *)
NoLostUpdate ==
    \A p, q \in Handlers :
        ( /\ Done(p, "register") /\ resp[p] = OkEmpty
          /\ Done(q, "dnsconfig") /\ resp[q] = OkEmpty
          /\ req[p].token = req[q].token
          /\ ~Before(p, q) /\ ~Before(q, p)
          /\ Alone({p, q}) )
        => \E r \in records :
              /\ r.token = req[p].token
              /\ r.local_ip = req[p].local_ip
              /\ r.public_ip = req[p].remote_addr
              /\ r.dns_challenge = req[q].challenge

(* C2: run one after the other on an existing token, dnsconfig(t, c) then  *)
(* register(t, l, p) leaves dnsChallenge = c, and register(t, l, p) then   *)
(* dnsconfig(t, c) leaves localIp = l, publicIp = p and the timestamp that *)
(* register set.                                                           *)
SequentialUpdatesKeepFields ==
    [][\A p, q \in Handlers :
        ( /\ Before(p, q) /\ Alone({p, q})
          /\ pc[p] = "done" /\ resp[p] = OkEmpty
          /\ pc[q] = "update_record" /\ pc'[q] = "done"
          /\ resp'[q] = OkEmpty
          /\ req[p].token = req[q].token )
        => /\ (req[p].op = "dnsconfig" /\ req[q].op = "register")
              => \E r \in records' :
                    /\ r.token = req[q].token
                    /\ r.dns_challenge = req[p].challenge
                    /\ r.local_ip = req[q].local_ip
                    /\ r.public_ip = req[q].remote_addr
           /\ (req[p].op = "register" /\ req[q].op = "dnsconfig")
              => \E r \in records', old \in records :
                    /\ r.token = req[q].token /\ old.token = req[q].token
                    /\ r.local_ip = req[p].local_ip
                    /\ r.public_ip = req[p].remote_addr
                    /\ r.timestamp = old.timestamp
                    /\ r.timestamp \in Clock
                    /\ r.dns_challenge = req[q].challenge]_vars

\* dnsconfig(t, c) returned Ok, then register(t, l, p) returned Ok, on a
\* record that held another challenge and another registration.
DnsconfigThenRegister ==
    \E p, q \in Handlers :
        /\ Before(p, q)
        /\ Done(p, "dnsconfig") /\ resp[p] = OkEmpty
        /\ Done(q, "register") /\ resp[q] = OkEmpty
        /\ req[p].token = req[q].token
        /\ \E r \in records :
              r.token = req[q].token /\ r.dns_challenge = req[p].challenge

(* C5: register and dnsconfig with a token that has no record answer       *)
(* NotFound (400) and change no record and no discovery mapping.           *)
UnknownTokenNotFound ==
    [][\A w \in Handlers :
        ( /\ Calls(w, "register", "get_record_by_token")
             \/ Calls(w, "dnsconfig", "get_record_by_token")
          /\ ~Has(records, req[w].token) )
        => /\ pc'[w] = "done"
           /\ resp'[w] = BadRequest
           /\ records' = records
           /\ discos' = discos]_vars

\* A register and a dnsconfig were refused for a token without a record,
\* while the store held a record and a mapping.
UnknownTokenRefused ==
    \E p, q \in Handlers :
        /\ Done(p, "register") /\ resp[p] = BadRequest
        /\ Done(q, "dnsconfig") /\ resp[q] = BadRequest
        /\ ~Has(records, req[p].token) /\ ~Has(records, req[q].token)
        /\ records # {} /\ discos # {}

(* C3: after any interleaving of subscribe, register, dnsconfig and        *)
(* unsubscribe requests no two stored records have the same remoteName.    *)
UniqueRemoteNames ==
    \A r1, r2 \in records : r1.remote_name = r2.remote_name => r1 = r2

\* The token a successful subscribe answered.
TokenOf(w) == resp[w].body[1].token

Subscribed(w) == Done(w, "subscribe") /\ resp[w].kind = "name_and_token"

(* C4: once subscribe(n1) has succeeded and while its record exists, a     *)
(* later subscribe(n2) with n2 equal to n1 up to letter case answers       *)
(* UnavailableName, with no token, and leaves the records as they are.     *)
SecondSubscribeRefused ==
    [][\A p, q \in Handlers :
        ( /\ Subscribed(p) /\ Before(p, q)
          /\ Calls(q, "subscribe", "get_record_by_name")
          /\ Has(records, TokenOf(p))
          /\ to_lowercase(req[q].name) = to_lowercase(req[p].name) )
        => /\ pc'[q] = "done"
           /\ resp'[q] = UnavailableName
           /\ resp'[q].body = <<>>
           /\ records' = records]_vars

\* subscribe("a") succeeded, then subscribe("A") (or the reverse) was refused.
SecondSubscribeOtherCase ==
    \E p, q \in Handlers :
        /\ Subscribed(p) /\ Before(p, q)
        /\ Done(q, "subscribe") /\ resp[q] = UnavailableName
        /\ req[q].name # req[p].name
        /\ to_lowercase(req[q].name) = to_lowercase(req[p].name)
        /\ Has(records, TokenOf(p))

\* An unsubscribe(t) returned Ok and a later info(t) or unsubscribe(t)
\* answered: it answered NotFound.
GoneAfterUnsubscribe ==
    \A p, q \in Handlers :
        ( /\ Done(p, "unsubscribe") /\ resp[p] = OkEmpty
          /\ Before(p, q)
          /\ Done(q, "info") \/ Done(q, "unsubscribe")
          /\ req[q].token = req[p].token )
        => resp[q] = BadRequest

IsEntry(e, name, desc) ==
    e.desc = desc /\ e.href \o <<".">> = Https \o name

(* C7: ping(P) answers one entry, built from localName and description,    *)
(* for each stored record whose publicIp is P, and none for another record.*)
PingAnswersTheNetwork ==
    [][\A w \in Handlers :
        Calls(w, "ping", "get_records_by_public_ip")
        => LET onNet == {r \in records : r.public_ip = req[w].remote_addr}
               body == resp'[w].body
           IN  /\ pc'[w] = "done"
               /\ resp'[w].kind = "discovered"
               /\ Len(body) = Cardinality(onNet)
               /\ \A i \in 1..Len(body) : \E r \in onNet :
                     IsEntry(body[i], r.local_name, r.description)
               /\ \A r \in onNet :
                     Cardinality({i \in 1..Len(body) :
                         IsEntry(body[i], r.local_name, r.description)})
                     = Cardinality({o \in onNet :
                         /\ o.local_name = r.local_name
                         /\ o.description = r.description})]_vars

\* A ping answered the record of its network and not the record that
\* never registered.
PingLeavesOutUnregistered ==
    \E w \in Handlers :
        /\ Done(w, "ping") /\ Len(resp[w].body) = 1
        /\ \E r \in records : r.public_ip = req[w].remote_addr
        /\ \E r \in records : r.public_ip = NONE
        /\ Alone({w})

\* No other request ran while q was handled or has run since.
Quiet(q) == \A h \in Handlers \ {q} : pc[h] = "idle" \/ Before(h, q)

Owners(id) == {d.token : d \in {m \in discos : m.disco = id}}

(* C8: discovery(id, P) answers NotFound for an unmapped id; the owner's   *)
(* entry keyed on localName when the owner's publicIp is P; one entry      *)
(* keyed on the owner's remoteName when the owner's record has another     *)
(* publicIp or none; and no entry of a record of another token.            *)
DiscoveryAnswersOwner ==
    \A q \in Handlers :
        (Done(q, "discovery") /\ Quiet(q))
        => LET P == req[q].remote_addr
               body == resp[q].body
               owned == {r \in records : r.token \in Owners(req[q].disco)}
           IN  /\ Owners(req[q].disco) = {} => resp[q] = BadRequest
               /\ \A r \in owned :
                     /\ resp[q].kind = "discovered"
                     /\ Len(body) = 1
                     /\ r.public_ip = P
                        => IsEntry(body[1], r.local_name, r.description)
                     /\ r.public_ip # P
                        => IsEntry(body[1], r.remote_name, r.description)
               /\ \A i \in 1..Len(body) : \E r \in owned :
                     \/ IsEntry(body[i], r.local_name, r.description)
                     \/ IsEntry(body[i], r.remote_name, r.description)

\* A discovery answered the owner's local name from the owner's network,
\* where another record is registered too.
DiscoveryOnOwnersNetwork ==
    \E q \in Handlers :
        /\ Done(q, "discovery") /\ Quiet(q)
        /\ \E r, o \in records :
              /\ r.token \in Owners(req[q].disco)
              /\ o.token \notin Owners(req[q].disco)
              /\ r.public_ip = req[q].remote_addr
              /\ o.public_ip = req[q].remote_addr
              /\ resp[q].body = <<local_entry(r)>>

(* C9: after revokediscovery(t, id) returned Ok, discovery(id, P) answers  *)
(* NotFound for every P, until an adddiscovery maps id again.              *)
RevokedIsNotFound ==
    \A p, q \in Handlers :
        ( /\ Done(p, "revokediscovery") /\ resp[p] = OkEmpty
          /\ Before(p, q)
          /\ Done(q, "discovery")
          /\ req[q].disco = req[p].disco
          /\ \A h \in Handlers :
                ( /\ Done(h, "adddiscovery") /\ resp[h] = OkEmpty
                  /\ req[h].disco = req[p].disco )
                => Before(h, p) )
        => resp[q] = BadRequest

\* The holder of a token revoked an id that was mapped, and a later
\* discovery of the id answered NotFound.
DiscoveryAfterRevoke ==
    \E p, q \in Handlers :
        /\ Done(p, "revokediscovery") /\ resp[p] = OkEmpty
        /\ Before(p, q)
        /\ Done(q, "discovery") /\ resp[q] = BadRequest
        /\ req[q].disco = req[p].disco
        /\ req[p].disco = "d1"
        /\ discos = {}

(* C10: each discoveryId is mapped to at most one token, whether the       *)
(* adddiscovery calls run in sequence or overlap.  adddiscovery looks up   *)
(* the token and hands the pair to add_discovery; it never looks at the    *)
(* id.  The property is therefore the store's: it holds for a store that   *)
(* refuses or replaces the mapping of an id that is mapped, and fails for  *)
(* one that stores the second mapping.  The contract names neither.        *)
OneTokenPerDiscoveryId ==
    \A d1, d2 \in discos : d1.disco = d2.disco => d1.token = d2.token

\* adddiscovery(t2, id) returned Ok while id was mapped to another token
\* t1: id is mapped to t2 alone, or to both.
SecondMappingAccepted ==
    \E p \in Handlers :
        /\ Done(p, "adddiscovery") /\ resp[p] = OkEmpty
        /\ \E d \in discos : d.disco = req[p].disco /\ d.token = req[p].token
        /\ \E h \in Handlers \ {p} :
              /\ Done(h, "adddiscovery") /\ resp[h] = OkEmpty
              /\ Before(h, p)
              /\ req[h].disco = req[p].disco /\ req[h].token # req[p].token

(* C11: once dnsconfig(t, c) has returned Ok, and while no other dnsconfig *)
(* is sent for t and t is not unsubscribed, lookupChallenge of t's remote  *)
(* name answers c, whatever register did around the dnsconfig.             *)
ChallengeStaysLookedUp ==
    \A q \in Handlers :
        ( /\ Done(q, "dnsconfig") /\ resp[q] = OkEmpty
          /\ \A h \in Handlers \ {q} :
                ~(req[h].op = "dnsconfig" /\ req[h].token = req[q].token) )
        => \A r \in records :
              r.token = req[q].token
              => lookupChallenge(records, r.remote_name) = req[q].challenge

(* C12: every request that arrived is answered in the end, also when a     *)
(* store call of its handler never completes.                              *)
EveryRequestReturns ==
    \A w \in Handlers : (pc[w] # "idle") ~> (pc[w] = "done")

\* A required parameter of the request is absent or is no string.
Malformed(r) == Required(r.op) \cap (r.absent \cup r.nonstring) # {}

(* C13: a request whose required parameter is missing or is no plain       *)
(* string is answered InvalidRequest (400) and its handler does not abort. *)
MalformedIsInvalidRequest ==
    \A w \in Handlers :
        (pc[w] # "idle" /\ Malformed(req[w]))
        => pc[w] = "done" /\ resp[w] = BadRequest

(* C14: a handler whose store call fails answers with a server-error       *)
(* status, and makes no further store call.                                *)
StoreFailureIsServerError ==
    [][\A w \in Handlers :
        store_fails(w)
        => /\ resp'[w].status = "InternalServerError"
           /\ pc'[w] = "done"]_vars

UniqueTokens == \A r1, r2 \in records : r1.token = r2.token => r1 = r2

(* C15: a subscribe that succeeds adds one record and changes no other;    *)
(* the record has the token answered, which no stored record has, no       *)
(* challenge, no addresses, timestamp 0 and the description given or the   *)
(* default one; no two stored records share a token.                       *)
SubscribeAddsOneRecord ==
    [][/\ \A w \in Handlers :
            ( /\ Calls(w, "subscribe", "add_record")
              /\ resp'[w].kind = "name_and_token" )
            => \E r \in records' :
                  /\ r \notin records
                  /\ records' = records \cup {r}
                  /\ r.token = resp'[w].body[1].token
                  /\ ~Has(records, r.token)
                  /\ r.dns_challenge = NONE
                  /\ r.local_ip = NONE /\ r.public_ip = NONE
                  /\ r.timestamp = 0
                  /\ r.description =
                        IF "desc" \in req[w].absent
                        THEN default_description(req[w].name)
                        ELSE req[w].desc
       /\ UniqueTokens']_vars

\* A subscribe without a description succeeded while another record was
\* stored: both records are stored now.
SubscribedNextToAnother ==
    \E w \in Handlers :
        /\ Subscribed(w) /\ "desc" \in req[w].absent
        /\ \E r, o \in records :
              /\ r.token = TokenOf(w) /\ o.token # r.token
              /\ r.description = default_description(req[w].name)
              /\ r.timestamp = 0

(* C16: while a record is stored, register and dnsconfig, in sequence or   *)
(* overlapping, leave its token, localName, remoteName, description and    *)
(* email as subscribe made them; localName is "local." + remoteName.       *)
IdentityFieldsNeverChange ==
    [][\A old \in records, new \in records' :
        old.token = new.token
        => /\ new.local_name = old.local_name
           /\ new.remote_name = old.remote_name
           /\ new.description = old.description
           /\ new.email = old.email
           /\ new.local_name = local_name_for(new.remote_name)]_vars

\* A register and a dnsconfig of the same token overlapped and both
\* returned Ok; the record is stored.
RegisterOverlappedDnsconfig ==
    \E p, q \in Handlers :
        /\ Done(p, "register") /\ resp[p] = OkEmpty
        /\ Done(q, "dnsconfig") /\ resp[q] = OkEmpty
        /\ req[p].token = req[q].token
        /\ ~Before(p, q) /\ ~Before(q, p)
        /\ Has(records, req[p].token)

(* C17: adddiscovery and revokediscovery with a token that has no record   *)
(* answer NotFound (400) and leave the discovery mappings as they are.     *)
MappingNeedsARecord ==
    [][\A w \in Handlers :
        ( /\ Calls(w, "adddiscovery", "get_record_by_token")
             \/ Calls(w, "revokediscovery", "get_record_by_token")
          /\ ~Has(records, req[w].token) )
        => /\ pc'[w] = "done"
           /\ resp'[w] = BadRequest
           /\ discos' = discos]_vars

\* An adddiscovery and a revokediscovery of a mapped id were refused for a
\* token without a record; the mapping is still there.
UnknownTokenKeepsMappings ==
    \E p, q \in Handlers :
        /\ Done(p, "adddiscovery") /\ resp[p] = BadRequest
        /\ Done(q, "revokediscovery") /\ resp[q] = BadRequest
        /\ ~Has(records, req[p].token) /\ ~Has(records, req[q].token)
        /\ \E d \in discos : d.disco = req[q].disco
        /\ \A d \in discos : d.disco # req[p].disco

(* C18: a discovery of an id whose owner has no record (it never had one,  *)
(* or it unsubscribed) answers NotFound and no entry; a discovery that     *)
(* succeeds answers at least one entry.                                    *)
DanglingMappingIsNotFound ==
    \A q \in Handlers :
        Done(q, "discovery")
        => /\ ( /\ Quiet(q)
                /\ Owners(req[q].disco) # {}
                /\ \A r \in records : r.token \notin Owners(req[q].disco) )
              => resp[q] = BadRequest /\ resp[q].body = <<>>
           /\ \A p \in Handlers :
                 ( /\ Done(p, "unsubscribe") /\ resp[p] = OkEmpty
                   /\ Before(p, q)
                   /\ req[p].token \in Owners(req[q].disco) )
                 => resp[q] = BadRequest /\ resp[q].body = <<>>
           /\ resp[q].kind = "discovered" => Len(resp[q].body) >= 1

\* The owner of a mapped id unsubscribed, and a later discovery of the id
\* answered NotFound; the mapping is still stored.
DiscoveryAfterOwnerLeft ==
    \E p, q \in Handlers :
        /\ Done(p, "unsubscribe") /\ resp[p] = OkEmpty
        /\ Before(p, q)
        /\ Done(q, "discovery") /\ resp[q] = BadRequest
        /\ req[p].token \in Owners(req[q].disco)

(* C19: revokediscovery(tA, id) with a token tA that has a record removes  *)
(* the mapping of id, also when id is mapped to another token, and         *)
(* returns Ok.                                                             *)
AnyHolderRevokes ==
    [][\A w \in Handlers :
        /\ ( /\ Calls(w, "revokediscovery", "get_record_by_token")
             /\ Has(records, req[w].token) )
           => pc'[w] = "delete_discovery" /\ discos' = discos
        /\ Calls(w, "revokediscovery", "delete_discovery")
           => /\ pc'[w] = "done"
              /\ resp'[w] = OkEmpty
              /\ discos' = {d \in discos : d.disco # req[w].disco}]_vars

\* adddiscovery(tB, id) returned Ok, then revokediscovery(tA, id) with
\* another token tA returned Ok: id is mapped no more.
RevokedByAnotherToken ==
    \E p, q \in Handlers :
        /\ Done(q, "adddiscovery") /\ resp[q] = OkEmpty
        /\ Before(q, p)
        /\ Done(p, "revokediscovery") /\ resp[p] = OkEmpty
        /\ req[p].disco = req[q].disco
        /\ req[p].token # req[q].token
        /\ Owners(req[p].disco) = {}

(* C20: every stored record has no local address, no public address and   *)
(* timestamp 0, or has both addresses and a timestamp above 0, also after  *)
(* register and dnsconfig calls that overlap on its token.                 *)
AddressesAndTimestampInStep ==
    \A r \in records :
        \/ r.local_ip = NONE /\ r.public_ip = NONE /\ r.timestamp = 0
        \/ r.local_ip # NONE /\ r.public_ip # NONE /\ r.timestamp > 0

\* A dnsconfig that overlapped a register of a record that had never
\* registered wrote last: the record is without addresses and timestamp
\* again.
StaleDnsconfigWroteLast ==
    \E p, q \in Handlers :
        /\ Done(p, "register") /\ resp[p] = OkEmpty
        /\ Done(q, "dnsconfig") /\ resp[q] = OkEmpty
        /\ req[p].token = req[q].token
        /\ ~Before(p, q) /\ ~Before(q, p)
        /\ \E r \in records :
              /\ r.token = req[p].token
              /\ r.dns_challenge = req[q].challenge
              /\ r.public_ip = NONE /\ r.timestamp = 0

(* C21: once unsubscribe(t) has returned Ok no record of token t is        *)
(* stored, not even after a register or dnsconfig that had read the record *)
(* before the unsubscribe writes it back.  register and dnsconfig write    *)
(* through update_record alone, after the one lookup each makes.  The      *)
(* property is therefore the store's: it holds for a store whose           *)
(* update_record leaves a token that is not stored alone, and fails for    *)
(* one that stores the record.  The contract names neither.                *)
UnsubscribedStaysGone ==
    \A p \in Handlers :
        (Done(p, "unsubscribe") /\ resp[p] = OkEmpty)
        => ~Has(records, req[p].token)

\* A register or dnsconfig read the record of t, overlapped the
\* unsubscribe(t) that deleted it, and has made its write.
WriterOverlappedUnsubscribe ==
    \E p, q \in Handlers :
        /\ Done(p, "unsubscribe") /\ resp[p] = OkEmpty
        /\ Done(q, "register") \/ Done(q, "dnsconfig")
        /\ resp[q] = OkEmpty
        /\ loc[q].token = req[p].token
        /\ ~Before(p, q) /\ ~Before(q, p)

====
